---- MODULE Spec2Model ----
(***************************************************************************)
(* A model of wandbot's Slack application (wandbot/apps/slack/__main__.py) *)
(* of the chat-prompt loader and its template formatter                    *)
(* (wandbot/chat/prompts.py), and of load_index (wandbot/utils.py).        *)
(*                                                                         *)
(* Every platform event or action is handled by one asyncio task.  A task  *)
(* is suspended at each await, so one action of the model is one awaited   *)
(* call of one task together with its outcome: the call returns, or it     *)
(* raises.  Slack and the question-answering API are the environment.      *)
(***************************************************************************)
EXTENDS Integers, Sequences, FiniteSets, TLC

VARIABLES
    language,         \* args.language, fixed at start-up
    tasks,            \* the handler invocations: tasks[t] is one coroutine
    slack_msgs,       \* Slack side: the messages the bot has posted
    slack_reactions,  \* Slack side: the reactions the bot has attached
    qa_store,         \* API side: the persisted question-answer records
    fb_store,         \* API side: the persisted feedback records
    pf,               \* one call of partial_format: its input and result
    prompt,           \* one call of load_chat_prompt: its input and result
    loaders,          \* the calls of load_index: loaders[c] is one caller
    storage           \* the file system: the index persisted in each directory

vars ==
    <<language, tasks, slack_msgs, slack_reactions, qa_store, fb_store, pf,
      prompt, loaders, storage>>

\* What the Slack application never touches.
lib_vars == <<pf, prompt, loaders, storage>>

slack_vars == <<language, tasks, slack_msgs, slack_reactions, qa_store, fb_store>>

-----------------------------------------------------------------------------
(* Bounds *)

\* Handler invocations that may be in flight together.
MaxTasks == 1

-----------------------------------------------------------------------------
(* Values *)

\* Python's None, and a dict key that is absent (dict.get gives None).
None == "<None>"

\* Python truthiness of an optional string: None and "" are falsy.
Truthy(x) == x # None /\ x # ""

\* x or y
Or(x, y) == IF Truthy(x) THEN x ELSE y

Languages == {"en", "ja"}

\* wandbot.apps.slack.config: the profile chosen by the language flag.
config(lang) ==
    [ bot_language  |-> lang,
      APPLICATION   |-> IF lang = "ja" THEN "Slack_JA" ELSE "Slack_EN",
      INTRO_MESSAGE |-> IF lang = "ja" THEN "intro_ja" ELSE "intro_en",
      OUTRO_MESSAGE |-> IF lang = "ja" THEN "outro_ja" ELSE "outro_en",
      SLACK_BOT_TOKEN |-> IF lang = "ja" THEN "xoxb-ja" ELSE "xoxb-en" ]

\* The timestamp Slack gives the n-th message the bot posts.
SentTs(n) == "S" \o ToString(n)

\* The event timestamp of the reaction event handled by task t.
EventTs(t) == "E" \o ToString(t)

ActionPersona ==
    [ executive_awareness |-> [action |-> "awareness", persona |-> "executive"],
      executive_signups   |-> [action |-> "signups",   persona |-> "executive"],
      technical_awareness |-> [action |-> "awareness", persona |-> "technical"],
      technical_signups   |-> [action |-> "signups",   persona |-> "technical"] ]

AdcopyVariants == DOMAIN ActionPersona

ActionHandlers == {"docsbot", "adcopy"} \cup AdcopyVariants

\* The reaction names a reaction_added event may carry.
Reactions == {"+1", "-1", "", "+1 ", "thumbsup", "thumbsdown"}

\* app_mention events: the mention is a top-level message or a reply in a thread.
MentionEvents ==
    { [ts |-> "T1", thread_ts |-> None, user |-> "U1"],
      [ts |-> "T2", thread_ts |-> "T1", user |-> "U2"] }

\* The body of an interactive action: the menu message holding the button.
ActionBodies ==
    { [message |-> [ts |-> "B1", thread_ts |-> "T1"], channel |-> [id |-> "C1"]],
      [message |-> [ts |-> "B2", thread_ts |-> "T2"], channel |-> [id |-> "C1"]] }

\* What resolving the originating message may give: a top-level message
\* (no thread_ts key), one with an empty thread_ts, and a reply in a thread.
OriginMessages ==
    { [text |-> "How do I log a metric?", user |-> "U2", ts |-> "T1", thread_ts |-> None],
      [text |-> "How do I log a metric?", user |-> "U2", ts |-> "T2", thread_ts |-> ""],
      [text |-> "And a table?",           user |-> "U1", ts |-> "T2", thread_ts |-> "T1"] }

NoMessage == [text |-> None, user |-> None, ts |-> None, thread_ts |-> None]

\* What conversations.replies may answer for one message: no "messages" key,
\* an empty list, or one message whose thread_ts is absent, empty or set.
Conversations(ts) ==
    { [has_messages |-> FALSE, messages |-> <<>>],
      [has_messages |-> TRUE,  messages |-> <<>>] }
    \cup { [has_messages |-> TRUE, messages |-> <<[ts |-> ts, thread_ts |-> th]>>] :
             th \in {None, "", "T1"} }

NoConversation == [has_messages |-> FALSE, messages |-> <<>>]

\* The structured answer of the question-answering API.
ApiResponse(question, chat_history) ==
    [question |-> question, answer |-> "answer", had_history |-> chat_history # {}]

NoResponse == [question |-> None, answer |-> None, had_history |-> FALSE]

\* tasks[t]: the handler, its next await (pc), how it ended (outcome), its
\* arguments (event), its locals, the calls it has made in order, the index of
\* the call that raised (0: none) and the number of logger.error calls.
IdleTask ==
    [ handler         |-> None,
      pc              |-> "idle",
      outcome         |-> "idle",
      event           |-> [ts |-> None],
      initial_message |-> NoMessage,
      thread_id       |-> None,
      chat_history    |-> {},
      api_response    |-> NoResponse,
      sent_ts         |-> None,
      conversation    |-> NoConversation,
      calls           |-> <<>>,
      raised_at       |-> 0,
      errors_logged   |-> 0 ]

-----------------------------------------------------------------------------
(* Message payloads and formatting *)

\* wandbot.apps.slack.utils.get_init_block(user): the menu offered to the user.
get_init_block(user) == [blocks |-> "init_block", user |-> user]

\* wandbot.apps.slack.utils.get_adcopy_blocks(): the ad-copy menu.
get_adcopy_blocks == [blocks |-> "adcopy_blocks", user |-> None]

\* MrkdwnFormatter()(message): conversion to Slack's markup dialect.
MrkdwnFormatter(message) == [mrkdwn |-> message]

\* config.INTRO_MESSAGE.format(user=user)
IntroMessage(lang, user) == [template |-> config(lang).INTRO_MESSAGE, user |-> user]

\* wandbot.apps.utils.format_response(config, api_response, outro)
format_response(lang, api_response, outro) ==
    [response |-> api_response, outro |-> outro, language |-> config(lang).bot_language]

-----------------------------------------------------------------------------
(* The calls a handler makes, with their arguments *)

AckCall == [op |-> "ack"]

GetInitialMessageCall(body, lang) ==
    [ op |-> "get_initial_message", message |-> body.message,
      channel |-> body.channel.id, token |-> config(lang).SLACK_BOT_TOKEN ]

\* say = partial(say, token=...); say(blocks=..., thread_ts=...)
SayBlocksCall(blocks, thread_ts, lang) ==
    [ op |-> "say", blocks |-> blocks, thread_ts |-> thread_ts,
      token |-> config(lang).SLACK_BOT_TOKEN ]

\* say(api_response.ad_copies, thread_ts=...): the text is the first positional
SayTextCall(text, thread_ts, lang) ==
    [ op |-> "say", text |-> text, thread_ts |-> thread_ts,
      token |-> config(lang).SLACK_BOT_TOKEN ]

\* send_message(say, message, thread): threaded only when thread is not None
send_message(message, thread, lang) ==
    IF thread # None
    THEN [ op |-> "say", text |-> MrkdwnFormatter(message), thread_ts |-> thread,
           token |-> config(lang).SLACK_BOT_TOKEN ]
    ELSE [ op |-> "say", text |-> MrkdwnFormatter(message),
           token |-> config(lang).SLACK_BOT_TOKEN ]

GetChatHistoryCall(thread_id, lang) ==
    [ op |-> "get_chat_history", application |-> config(lang).APPLICATION,
      thread_id |-> thread_id ]

QueryCall(question, chat_history, lang) ==
    [ op |-> "query", question |-> question, chat_history |-> chat_history,
      language |-> config(lang).bot_language,
      application |-> config(lang).APPLICATION ]

ReactionsAddCall(channel, timestamp, name, lang) ==
    [ op |-> "reactions_add", channel |-> channel, timestamp |-> timestamp,
      name |-> name, token |-> config(lang).SLACK_BOT_TOKEN ]

CreateQuestionAnswerCall(thread_id, question_answer_id, api_response, lang) ==
    [ op |-> "create_question_answer", thread_id |-> thread_id,
      question_answer_id |-> question_answer_id,
      language |-> config(lang).bot_language, fields |-> api_response ]

GenerateAdsCall(query, action, persona) ==
    [ op |-> "generate_ads", query |-> query, action |-> action,
      persona |-> persona ]

ConversationsRepliesCall(channel, ts, lang) ==
    [ op |-> "conversations_replies", channel |-> channel, ts |-> ts,
      inclusive |-> TRUE, limit |-> 1, token |-> config(lang).SLACK_BOT_TOKEN ]

CreateFeedbackCall(feedback_id, question_answer_id, rating) ==
    [ op |-> "create_feedback", feedback_id |-> feedback_id,
      question_answer_id |-> question_answer_id, rating |-> rating ]

\* The calls that go to the question-answering API client.
ApiOps ==
    { "get_chat_history", "query", "create_question_answer", "generate_ads",
      "create_feedback" }

-----------------------------------------------------------------------------
(* How a step of a task ends *)

Called(tk, call) == [tk EXCEPT !.calls = Append(@, call)]

Goto(tk, pc) == [tk EXCEPT !.pc = pc]

\* The coroutine returns normally.
Return(tk) == [tk EXCEPT !.pc = "done", !.outcome = "returned"]

\* The call just made raised, and the exception leaves the coroutine.
Raise(tk) ==
    [tk EXCEPT !.pc = "done", !.outcome = "raised", !.raised_at = Len(tk.calls)]

\* Faulty variant: the first failure inside the try block is logged and the
\* failed step is tried again.
Caught_then_retry(tk) ==
    IF tk.errors_logged = 0
    THEN [tk EXCEPT !.raised_at = Len(tk.calls), !.errors_logged = @ + 1]
    ELSE [tk EXCEPT !.pc = "done", !.outcome = "returned",
                    !.raised_at = Len(tk.calls), !.errors_logged = @ + 1]

\* The call just made raised inside the try block:
\* except Exception as e: logger.error(...)
Caught(tk) ==
    [tk EXCEPT !.pc = "done", !.outcome = "returned",
               !.raised_at = Len(tk.calls), !.errors_logged = @ + 1]

At(t, handlers, pc) ==
    /\ t \in DOMAIN tasks
    /\ tasks[t].handler \in handlers
    /\ tasks[t].pc = pc

\* Slack stores a posted message under a fresh timestamp.
Posted(call) ==
    Append(slack_msgs,
           [ ts |-> SentTs(Len(slack_msgs) + 1),
             thread_ts |-> IF "thread_ts" \in DOMAIN call THEN call.thread_ts
                           ELSE None,
             content |-> IF "text" \in DOMAIN call THEN call.text
                         ELSE call.blocks ])

\* The API's chat history of a thread: the records persisted for it.
ChatHistory(thread_id) ==
    {r.question_answer_id : r \in {q \in qa_store : q.thread_id = thread_id}}

-----------------------------------------------------------------------------
(* Dispatch: Bolt starts one coroutine per event or action *)

\* The events and actions the platform may deliver to task t.
Deliveries(t) ==
    { [handler |-> "app_mention", event |-> e] : e \in MentionEvents }
    \cup { [handler |-> h, event |-> b] : h \in ActionHandlers, b \in ActionBodies }
    \cup { [ handler |-> "reaction_added",
             event |-> [ item |-> [channel |-> "C1", ts |-> ts],
                         reaction |-> r, event_ts |-> EventTs(t) ] ] :
             r \in Reactions,
             ts \in {"T3"} \cup {slack_msgs[i].ts : i \in 1..Len(slack_msgs)} }

\* The first await of each handler.
FirstPc(handler) ==
    CASE handler = "app_mention"    -> "say"
      [] handler = "reaction_added" -> "conversations_replies"
      [] OTHER                      -> "ack"

Dispatch(t) ==
    /\ t \in DOMAIN tasks
    /\ tasks[t].pc = "idle"
    /\ \A u \in DOMAIN tasks : u < t => tasks[u].pc # "idle"
    /\ \E d \in Deliveries(t) :
         tasks' = [tasks EXCEPT ![t] =
                     [@ EXCEPT !.handler = d.handler, !.event = d.event,
                               !.pc = FirstPc(d.handler), !.outcome = "running"]]
    /\ UNCHANGED <<language, slack_msgs, slack_reactions, qa_store, fb_store, lib_vars>>

-----------------------------------------------------------------------------
(* handle_mention *)

\* Faulty variant: the menu is threaded like the action handlers thread theirs.
original_msg_ts_or_thread(event) == Or(event.thread_ts, event.ts)

\* original_msg_ts = event.get("ts")
original_msg_ts(event) == event.ts

handle_mention(t) ==
    /\ At(t, {"app_mention"}, "say")
    /\ LET tk   == tasks[t]
           call == SayBlocksCall(get_init_block(tk.event.user),
                                 original_msg_ts(tk.event), language)
       IN  \/ /\ tasks' = [tasks EXCEPT ![t] = Return(Called(tk, call))]
              /\ slack_msgs' = Posted(call)
           \/ /\ tasks' = [tasks EXCEPT ![t] = Raise(Called(tk, call))]
              /\ UNCHANGED slack_msgs
    /\ UNCHANGED <<language, slack_reactions, qa_store, fb_store, lib_vars>>

-----------------------------------------------------------------------------
(* Steps shared by the action handlers *)

\* await ack(), outside any try
AwaitAck(t, handlers) ==
    /\ At(t, handlers, "ack")
    /\ LET tk == tasks[t]
       IN  \/ tasks' = [tasks EXCEPT ![t] =
                          Goto(Called(tk, AckCall), "get_initial_message")]
           \/ tasks' = [tasks EXCEPT ![t] = Raise(Called(tk, AckCall))]
    /\ UNCHANGED <<language, slack_msgs, slack_reactions, qa_store, fb_store, lib_vars>>

\* initial_message = await get_initial_message(app, body["message"], ...),
\* outside any try
AwaitGetInitialMessage(t, handlers, next_pc) ==
    /\ At(t, handlers, "get_initial_message")
    /\ LET tk   == tasks[t]
           call == GetInitialMessageCall(tk.event, language)
       IN  \/ \E m \in OriginMessages :
                tasks' = [tasks EXCEPT ![t] =
                            Goto([Called(tk, call) EXCEPT !.initial_message = m],
                                 next_pc)]
           \/ tasks' = [tasks EXCEPT ![t] = Raise(Called(tk, call))]
    /\ UNCHANGED <<language, slack_msgs, slack_reactions, qa_store, fb_store, lib_vars>>

-----------------------------------------------------------------------------
(* docsbot_handler *)

\* Faulty variant: the thread_ts of the originating message is ignored.
docsbot_thread_id_ts_only(initial_message) == initial_message.ts

\* Faulty variant: the originating message is kept in a module-level variable
\* that every invocation overwrites, and the thread id is read from it.
docsbot_thread_id_shared(initial_message) ==
    LET resolved == {u \in DOMAIN tasks : tasks[u].initial_message # NoMessage}
        last     == CHOOSE u \in resolved : \A v \in resolved : v <= u
        m        == IF resolved = {} THEN initial_message
                    ELSE tasks[last].initial_message
    IN  Or(m.thread_ts, m.ts)

\* thread_id = initial_message.get("thread_ts", None) or initial_message.get("ts", None)
docsbot_thread_id(initial_message) ==
    Or(initial_message.thread_ts, initial_message.ts)

\* Faulty variant: the intro is sent whatever the history.
intro_always(chat_history) == TRUE

\* Faulty variant: the test is inverted (if chat_history:).
if_chat_history(chat_history) == chat_history # {}

\* if not chat_history:
not_chat_history(chat_history) == chat_history = {}

\* Faulty variant: the record is persisted before the reactions are attached.
docsbot_next_persist_first(pc, chat_history) ==
    CASE pc = "get_chat_history" ->
             IF chat_history = {} THEN "send_intro" ELSE "query"
      [] pc = "send_intro"               -> "query"
      [] pc = "query"                    -> "send_answer"
      [] pc = "send_answer"              -> "create_question_answer"
      [] pc = "create_question_answer"   -> "reactions_add_thumbsup"
      [] pc = "reactions_add_thumbsup"   -> "reactions_add_thumbsdown"
      [] pc = "reactions_add_thumbsdown" -> "done"

\* The statement order inside the try block: the await that follows each one.
docsbot_next(pc, chat_history) ==
    CASE pc = "get_chat_history" ->
             IF not_chat_history(chat_history) THEN "send_intro" ELSE "query"
      [] pc = "send_intro"               -> "query"
      [] pc = "query"                    -> "send_answer"
      [] pc = "send_answer"              -> "reactions_add_thumbsup"
      [] pc = "reactions_add_thumbsup"   -> "reactions_add_thumbsdown"
      [] pc = "reactions_add_thumbsdown" -> "create_question_answer"
      [] pc = "create_question_answer"   -> "done"

\* The task after one awaited call of the try block returned.
DocsbotProceed(tk, call) ==
    LET nxt == docsbot_next(tk.pc, tk.chat_history)
    IN  IF nxt = "done" THEN Return(Called(tk, call))
        ELSE Goto(Called(tk, call), nxt)

docsbot_handler_ack(t) == AwaitAck(t, {"docsbot"})

docsbot_handler_get_initial_message(t) ==
    AwaitGetInitialMessage(t, {"docsbot"}, "get_chat_history")

docsbot_handler_get_chat_history(t) ==
    /\ At(t, {"docsbot"}, "get_chat_history")
    /\ LET tk0  == tasks[t]
           tk   == [tk0 EXCEPT !.thread_id = docsbot_thread_id(tk0.initial_message)]
           call == GetChatHistoryCall(tk.thread_id, language)
       IN  \/ tasks' = [tasks EXCEPT ![t] =
                          DocsbotProceed(
                              [tk EXCEPT !.chat_history = ChatHistory(tk.thread_id)],
                              call)]
           \/ tasks' = [tasks EXCEPT ![t] = Caught(Called(tk, call))]
    /\ UNCHANGED <<language, slack_msgs, slack_reactions, qa_store, fb_store, lib_vars>>

\* Faulty variant: the intro is skipped when the thread already holds one,
\* as a once-per-thread flag would have it.
docsbot_handler_send_intro_once(t) ==
    /\ At(t, {"docsbot"}, "send_intro")
    /\ LET tk   == tasks[t]
           call == send_message(IntroMessage(language, tk.initial_message.user),
                                tk.thread_id, language)
           sent == \E i \in 1..Len(slack_msgs) :
                       /\ slack_msgs[i].thread_ts = tk.thread_id
                       /\ "template" \in DOMAIN slack_msgs[i].content.mrkdwn
       IN  \/ /\ ~sent
              /\ tasks' = [tasks EXCEPT ![t] = DocsbotProceed(tk, call)]
              /\ slack_msgs' = Posted(call)
           \/ /\ ~sent
              /\ tasks' = [tasks EXCEPT ![t] = Caught(Called(tk, call))]
              /\ UNCHANGED slack_msgs
           \/ /\ sent
              /\ tasks' = [tasks EXCEPT ![t] = Goto(tk, "query")]
              /\ UNCHANGED slack_msgs
    /\ UNCHANGED <<language, slack_reactions, qa_store, fb_store, lib_vars>>

docsbot_handler_send_intro(t) ==
    /\ At(t, {"docsbot"}, "send_intro")
    /\ LET tk   == tasks[t]
           call == send_message(IntroMessage(language, tk.initial_message.user),
                                tk.thread_id, language)
       IN  \/ /\ tasks' = [tasks EXCEPT ![t] = DocsbotProceed(tk, call)]
              /\ slack_msgs' = Posted(call)
           \/ /\ tasks' = [tasks EXCEPT ![t] = Caught(Called(tk, call))]
              /\ UNCHANGED slack_msgs
    /\ UNCHANGED <<language, slack_reactions, qa_store, fb_store, lib_vars>>

docsbot_handler_query(t) ==
    /\ At(t, {"docsbot"}, "query")
    /\ LET tk   == tasks[t]
           call == QueryCall(tk.initial_message.text, tk.chat_history, language)
       IN  \/ tasks' = [tasks EXCEPT ![t] =
                          DocsbotProceed(
                              [tk EXCEPT !.api_response =
                                  ApiResponse(tk.initial_message.text, tk.chat_history)],
                              call)]
           \/ tasks' = [tasks EXCEPT ![t] = Caught(Called(tk, call))]
    /\ UNCHANGED <<language, slack_msgs, slack_reactions, qa_store, fb_store, lib_vars>>

docsbot_handler_send_answer(t) ==
    /\ At(t, {"docsbot"}, "send_answer")
    /\ LET tk   == tasks[t]
           call == send_message(
                       format_response(language, tk.api_response,
                                       config(language).OUTRO_MESSAGE),
                       tk.thread_id, language)
       IN  \/ /\ tasks' = [tasks EXCEPT ![t] =
                             DocsbotProceed(
                                 [tk EXCEPT !.sent_ts = SentTs(Len(slack_msgs) + 1)],
                                 call)]
              /\ slack_msgs' = Posted(call)
           \/ /\ tasks' = [tasks EXCEPT ![t] = Caught(Called(tk, call))]
              /\ UNCHANGED slack_msgs
    /\ UNCHANGED <<language, slack_reactions, qa_store, fb_store, lib_vars>>

\* await app.client.reactions_add(channel=..., timestamp=sent_message["ts"], name=...)
DocsbotReactionsAdd(t, pc, name) ==
    /\ At(t, {"docsbot"}, pc)
    /\ LET tk   == tasks[t]
           call == ReactionsAddCall(tk.event.channel.id, tk.sent_ts, name, language)
       IN  \/ /\ tasks' = [tasks EXCEPT ![t] = DocsbotProceed(tk, call)]
              /\ slack_reactions' =
                     slack_reactions \cup {[ts |-> tk.sent_ts, name |-> name]}
           \/ /\ tasks' = [tasks EXCEPT ![t] = Caught(Called(tk, call))]
              /\ UNCHANGED slack_reactions
    /\ UNCHANGED <<language, slack_msgs, qa_store, fb_store, lib_vars>>

docsbot_handler_thumbsup(t) ==
    DocsbotReactionsAdd(t, "reactions_add_thumbsup", "thumbsup")

docsbot_handler_thumbsdown(t) ==
    DocsbotReactionsAdd(t, "reactions_add_thumbsdown", "thumbsdown")

docsbot_handler_create_question_answer(t) ==
    /\ At(t, {"docsbot"}, "create_question_answer")
    /\ LET tk   == tasks[t]
           call == CreateQuestionAnswerCall(tk.thread_id, tk.sent_ts,
                                            tk.api_response, language)
       IN  \/ /\ tasks' = [tasks EXCEPT ![t] = DocsbotProceed(tk, call)]
              /\ qa_store' = qa_store \cup
                     {[thread_id |-> tk.thread_id, question_answer_id |-> tk.sent_ts]}
           \/ /\ tasks' = [tasks EXCEPT ![t] = Caught(Called(tk, call))]
              /\ UNCHANGED qa_store
    /\ UNCHANGED <<language, slack_msgs, slack_reactions, fb_store, lib_vars>>

-----------------------------------------------------------------------------
(* adcopy_handler *)

\* thread_ts = initial_message.get("thread_ts", None) or initial_message.get("ts", None)
adcopy_thread_ts(initial_message) ==
    Or(initial_message.thread_ts, initial_message.ts)

adcopy_handler_ack(t) == AwaitAck(t, {"adcopy"})

adcopy_handler_get_initial_message(t) ==
    AwaitGetInitialMessage(t, {"adcopy"}, "say")

adcopy_handler_say(t) ==
    /\ At(t, {"adcopy"}, "say")
    /\ LET tk0  == tasks[t]
           tk   == [tk0 EXCEPT !.thread_id = adcopy_thread_ts(tk0.initial_message)]
           call == SayBlocksCall(get_adcopy_blocks, tk.thread_id, language)
       IN  \/ /\ tasks' = [tasks EXCEPT ![t] = Return(Called(tk, call))]
              /\ slack_msgs' = Posted(call)
           \/ /\ tasks' = [tasks EXCEPT ![t] = Raise(Called(tk, call))]
              /\ UNCHANGED slack_msgs
    /\ UNCHANGED <<language, slack_reactions, qa_store, fb_store, lib_vars>>

-----------------------------------------------------------------------------
(* The four ad-copy variant handlers and handle_adcopy_action *)

\* Faulty variant: the two arguments are passed in the other order.
adcopy_pair_swapped(action_id) ==
    [ action  |-> ActionPersona[action_id].persona,
      persona |-> ActionPersona[action_id].action ]

\* The (action, persona) pair each variant handler passes on.
adcopy_pair(action_id) == ActionPersona[action_id]

\* thread_ts = initial_message.get("thread_ts", None) or initial_message.get("ts", None)
handle_adcopy_thread_ts(initial_message) ==
    Or(initial_message.thread_ts, initial_message.ts)

\* The response of generate_ads.
AdsResponse(query, action, persona) ==
    [ad_copies |-> [query |-> query, action |-> action, persona |-> persona]]

variant_handler_ack(t) == AwaitAck(t, AdcopyVariants)

handle_adcopy_action_get_initial_message(t) ==
    AwaitGetInitialMessage(t, AdcopyVariants, "generate_ads")

handle_adcopy_action_generate_ads(t) ==
    /\ At(t, AdcopyVariants, "generate_ads")
    /\ LET tk   == tasks[t]
           pair == adcopy_pair(tk.handler)
           call == GenerateAdsCall(tk.initial_message.text, pair.action, pair.persona)
       IN  \/ tasks' = [tasks EXCEPT ![t] =
                          Goto([Called(tk, call) EXCEPT !.api_response =
                                   AdsResponse(tk.initial_message.text,
                                               pair.action, pair.persona)],
                               "say")]
           \/ tasks' = [tasks EXCEPT ![t] = Raise(Called(tk, call))]
    /\ UNCHANGED <<language, slack_msgs, slack_reactions, qa_store, fb_store, lib_vars>>

handle_adcopy_action_say(t) ==
    /\ At(t, AdcopyVariants, "say")
    /\ LET tk0  == tasks[t]
           tk   == [tk0 EXCEPT !.thread_id =
                       handle_adcopy_thread_ts(tk0.initial_message)]
           call == SayTextCall([ad_copies |-> tk.api_response.ad_copies],
                               tk.thread_id, language)
       IN  \/ /\ tasks' = [tasks EXCEPT ![t] = Return(Called(tk, call))]
              /\ slack_msgs' = Posted(call)
           \/ /\ tasks' = [tasks EXCEPT ![t] = Raise(Called(tk, call))]
              /\ UNCHANGED slack_msgs
    /\ UNCHANGED <<language, slack_reactions, qa_store, fb_store, lib_vars>>

-----------------------------------------------------------------------------
(* parse_reaction and handle_reaction_added *)

\* Faulty variant: the names of the reactions the bot attaches are rated too.
parse_reaction_by_name(reaction) ==
    IF reaction \in {"+1", "thumbsup"} THEN 1
    ELSE IF reaction \in {"-1", "thumbsdown"} THEN -1
    ELSE 0

parse_reaction(reaction) ==
    IF reaction = "+1" THEN 1
    ELSE IF reaction = "-1" THEN -1
    ELSE 0

\* Faulty variant: any message found counts, in a thread or not.
has_messages_only(conversation) ==
    /\ conversation.has_messages
    /\ Len(conversation.messages) > 0

\* messages = conversation.get("messages"): None when the key is absent
\* if messages and len(messages): thread_ts = messages[0].get("thread_ts")
\*     if thread_ts:
has_thread_ts(conversation) ==
    /\ conversation.has_messages
    /\ Len(conversation.messages) > 0
    /\ Truthy(conversation.messages[1].thread_ts)

handle_reaction_added_conversations_replies(t) ==
    /\ At(t, {"reaction_added"}, "conversations_replies")
    /\ LET tk   == tasks[t]
           call == ConversationsRepliesCall(tk.event.item.channel,
                                            tk.event.item.ts, language)
       IN  \/ \E c \in Conversations(tk.event.item.ts) :
                LET got == [Called(tk, call) EXCEPT !.conversation = c]
                IN  tasks' = [tasks EXCEPT ![t] =
                                IF has_thread_ts(c) THEN Goto(got, "create_feedback")
                                ELSE Return(got)]
           \/ tasks' = [tasks EXCEPT ![t] = Raise(Called(tk, call))]
    /\ UNCHANGED <<language, slack_msgs, slack_reactions, qa_store, fb_store, lib_vars>>

\* Faulty variant: the two ids are exchanged.
feedback_call_swapped(event) ==
    CreateFeedbackCall(event.item.ts, event.event_ts, parse_reaction(event.reaction))

\* rating = parse_reaction(event["reaction"]); await api_client.create_feedback(...)
feedback_call(event) ==
    CreateFeedbackCall(event.event_ts, event.item.ts, parse_reaction(event.reaction))

handle_reaction_added_create_feedback(t) ==
    /\ At(t, {"reaction_added"}, "create_feedback")
    /\ LET tk   == tasks[t]
           call == feedback_call(tk.event)
       IN  \/ /\ tasks' = [tasks EXCEPT ![t] = Return(Called(tk, call))]
              /\ fb_store' = fb_store \cup
                     {[ feedback_id |-> call.feedback_id,
                        question_answer_id |-> call.question_answer_id,
                        rating |-> call.rating ]}
           \/ /\ tasks' = [tasks EXCEPT ![t] = Raise(Called(tk, call))]
              /\ UNCHANGED fb_store
    /\ UNCHANGED <<language, slack_msgs, slack_reactions, qa_store, lib_vars>>

-----------------------------------------------------------------------------
(* The Slack application *)

\* No call of partial_format is in progress.
PfIdle == [state |-> "idle"]

\* No call of load_chat_prompt is in progress.
PromptIdle == [state |-> "idle"]

\* The file system is not looked at.
NoStorage == <<>>

\* Records persisted by earlier interactions, before this run starts.
EarlierRecords == {[thread_id |-> "T1", question_answer_id |-> "S0"]}

Init ==
    /\ language \in Languages
    /\ tasks = [t \in 1..MaxTasks |-> IdleTask]
    /\ slack_msgs = <<>>
    /\ slack_reactions = {}
    /\ qa_store \in SUBSET EarlierRecords
    /\ fb_store = {}
    /\ pf = PfIdle
    /\ prompt = PromptIdle
    /\ loaders = <<>>
    /\ storage = NoStorage

Next ==
    \/ \E t \in DOMAIN tasks : Dispatch(t)
    \/ \E t \in DOMAIN tasks : handle_mention(t)
    \/ \E t \in DOMAIN tasks : docsbot_handler_ack(t)
    \/ \E t \in DOMAIN tasks : docsbot_handler_get_initial_message(t)
    \/ \E t \in DOMAIN tasks : docsbot_handler_get_chat_history(t)
    \/ \E t \in DOMAIN tasks : docsbot_handler_send_intro(t)
    \/ \E t \in DOMAIN tasks : docsbot_handler_query(t)
    \/ \E t \in DOMAIN tasks : docsbot_handler_send_answer(t)
    \/ \E t \in DOMAIN tasks : docsbot_handler_thumbsup(t)
    \/ \E t \in DOMAIN tasks : docsbot_handler_thumbsdown(t)
    \/ \E t \in DOMAIN tasks : docsbot_handler_create_question_answer(t)
    \/ \E t \in DOMAIN tasks : adcopy_handler_ack(t)
    \/ \E t \in DOMAIN tasks : adcopy_handler_get_initial_message(t)
    \/ \E t \in DOMAIN tasks : adcopy_handler_say(t)
    \/ \E t \in DOMAIN tasks : variant_handler_ack(t)
    \/ \E t \in DOMAIN tasks : handle_adcopy_action_get_initial_message(t)
    \/ \E t \in DOMAIN tasks : handle_adcopy_action_generate_ads(t)
    \/ \E t \in DOMAIN tasks : handle_adcopy_action_say(t)
    \/ \E t \in DOMAIN tasks : handle_reaction_added_conversations_replies(t)
    \/ \E t \in DOMAIN tasks : handle_reaction_added_create_feedback(t)

Spec == Init /\ [][Next]_vars

-----------------------------------------------------------------------------
(* Properties of the Slack application *)

Ops(calls) == [i \in 1..Len(calls) |-> calls[i].op]

IsPrefix(s, u) == Len(s) <= Len(u) /\ \A i \in 1..Len(s) : s[i] = u[i]

\* The task is an invocation of one of these handlers.
Runs(t, handlers) == tasks[t].handler \in handlers

\* The thread of an originating message: its thread_ts when it has one (empty
\* counts as none), otherwise its own ts.
ThreadOf(m) == IF m.thread_ts \notin {None, ""} THEN m.thread_ts ELSE m.ts

IsIntro(call) ==
    /\ call.op = "say"
    /\ "text" \in DOMAIN call
    /\ "template" \in DOMAIN call.text.mrkdwn

IsAnswer(call) ==
    /\ call.op = "say"
    /\ "text" \in DOMAIN call
    /\ "response" \in DOMAIN call.text.mrkdwn

Indices(calls, P(_)) == {i \in 1..Len(calls) : P(calls[i])}

\* The docsbot interaction of task t ran to its end and no call of it raised.
DocsbotCompleted(t) ==
    /\ Runs(t, {"docsbot"})
    /\ tasks[t].outcome = "returned"
    /\ tasks[t].raised_at = 0

\* C1: a docsbot interaction that finds an empty chat history and in which no
\* step fails makes, after acknowledging and resolving the originating message,
\* exactly these calls in this order: get_chat_history, the intro (threaded to
\* the thread id), query, the answer (threaded to the thread id), reactions_add
\* thumbsup and then thumbsdown on the answer Slack stored, and
\* create_question_answer with that thread id and the stored answer's ts.
C1_EmptyHistorySequence ==
    \A t \in DOMAIN tasks :
        (DocsbotCompleted(t) /\ tasks[t].chat_history = {}) =>
            LET c  == tasks[t].calls
                th == ThreadOf(tasks[t].initial_message)
            IN  /\ Ops(c) = << "ack", "get_initial_message", "get_chat_history",
                               "say", "query", "say", "reactions_add",
                               "reactions_add", "create_question_answer" >>
                /\ c[3].thread_id = th
                /\ IsIntro(c[4]) /\ "thread_ts" \in DOMAIN c[4] /\ c[4].thread_ts = th
                /\ IsAnswer(c[6]) /\ "thread_ts" \in DOMAIN c[6] /\ c[6].thread_ts = th
                /\ c[7].name = "thumbsup" /\ c[8].name = "thumbsdown"
                /\ c[7].timestamp = c[9].question_answer_id
                /\ c[8].timestamp = c[9].question_answer_id
                /\ c[9].thread_id = th
                /\ \E i \in 1..Len(slack_msgs) :
                       /\ slack_msgs[i].ts = c[9].question_answer_id
                       /\ slack_msgs[i].content = c[6].text
                       /\ slack_msgs[i].thread_ts = th

C1_Witness ==
    \E t \in DOMAIN tasks :
        /\ DocsbotCompleted(t)
        /\ tasks[t].chat_history = {}
        /\ Len(tasks[t].calls) = 9
        /\ \E q \in qa_store : q.question_answer_id = tasks[t].sent_ts

\* The chat history of task t's thread has been fetched.
HistoryFetched(t) ==
    /\ Runs(t, {"docsbot"})
    /\ Len(tasks[t].calls) >= 3
    /\ tasks[t].raised_at # 3

\* C2: within one docsbot interaction the intro is sent at most once; when the
\* fetched history is empty the intro is the first call after the fetch, so it
\* is sent exactly once, before the query and before the answer; when the
\* fetched history is not empty the intro is never sent.
C2_IntroOnlyOnEmptyHistory ==
    \A t \in DOMAIN tasks :
        Runs(t, {"docsbot"}) =>
            LET c      == tasks[t].calls
                intros == Indices(c, IsIntro)
            IN  /\ Cardinality(intros) <= 1
                /\ intros # {} => HistoryFetched(t)
                /\ (HistoryFetched(t) /\ tasks[t].chat_history = {}
                        /\ tasks[t].pc # "send_intro") =>
                       /\ intros = {4}
                       /\ \A i \in 1..Len(c) :
                              (c[i].op = "query" \/ IsAnswer(c[i])) => i > 4
                /\ (HistoryFetched(t) /\ tasks[t].chat_history # {}) => intros = {}

C2_Witness ==
    \E t \in DOMAIN tasks :
        /\ HistoryFetched(t)
        /\ tasks[t].chat_history = {}
        /\ Indices(tasks[t].calls, IsIntro) = {4}
        /\ Indices(tasks[t].calls, IsAnswer) = {6}

\* The lookup of task t's reacted message has returned.
LookedUp(t) ==
    /\ Runs(t, {"reaction_added"})
    /\ Len(tasks[t].calls) >= 1
    /\ tasks[t].raised_at # 1

\* The looked-up conversation has a first message with a thread_ts.
InThread(conversation) ==
    /\ conversation.has_messages
    /\ conversation.messages # <<>>
    /\ conversation.messages[1].thread_ts \notin {None, ""}

\* C3: handle_reaction_added looks the reacted message up with one
\* conversations_replies call (inclusive, limit 1); when the first message
\* found has a thread_ts it then submits exactly one create_feedback, whatever
\* the reaction, with feedback_id the event's event_ts, question_answer_id the
\* reacted message's ts and rating parse_reaction(reaction).
C3_OneFeedbackPerThreadedReaction ==
    \A t \in DOMAIN tasks :
        Runs(t, {"reaction_added"}) =>
            LET c == tasks[t].calls
                e == tasks[t].event
            IN  /\ Len(c) <= 2
                /\ Len(c) >= 1 =>
                       /\ c[1].op = "conversations_replies"
                       /\ c[1].ts = e.item.ts /\ c[1].channel = e.item.channel
                       /\ c[1].inclusive = TRUE /\ c[1].limit = 1
                /\ (LookedUp(t) /\ InThread(tasks[t].conversation)) =>
                       /\ tasks[t].pc = "create_feedback" \/ Len(c) = 2
                       /\ Len(c) = 2 =>
                              /\ c[2].op = "create_feedback"
                              /\ c[2].feedback_id = e.event_ts
                              /\ c[2].question_answer_id = e.item.ts
                              /\ c[2].rating = parse_reaction(e.reaction)

C3_Witness ==
    \E t \in DOMAIN tasks :
        /\ LookedUp(t) /\ InThread(tasks[t].conversation)
        /\ tasks[t].event.reaction = "+1"
        /\ tasks[t].pc = "done"
        /\ [feedback_id |-> tasks[t].event.event_ts,
            question_answer_id |-> tasks[t].event.item.ts, rating |-> 1] \in fb_store

\* C4: when the lookup returns no messages, an empty list, or a first message
\* whose thread_ts is missing or empty, handle_reaction_added makes no
\* create_feedback call and returns normally.
C4_NoThreadNoFeedback ==
    \A t \in DOMAIN tasks :
        (LookedUp(t) /\ ~InThread(tasks[t].conversation)) =>
            /\ tasks[t].pc = "done"
            /\ tasks[t].outcome = "returned"
            /\ Ops(tasks[t].calls) = <<"conversations_replies">>
            /\ \A f \in fb_store : f.feedback_id # tasks[t].event.event_ts

C4_Witness ==
    \E t \in DOMAIN tasks :
        /\ LookedUp(t)
        /\ tasks[t].conversation.has_messages
        /\ tasks[t].conversation.messages # <<>>
        /\ tasks[t].conversation.messages[1].thread_ts = ""
        /\ tasks[t].outcome = "returned"

\* C5: the rating submitted for a reaction is 1 exactly for "+1", -1 exactly
\* for "-1" and 0 for every other reaction name, the empty string, "+1 " with
\* a trailing space, "thumbsup" and "thumbsdown" included.
C5_RatingOfReaction ==
    \A t \in DOMAIN tasks :
        Runs(t, {"reaction_added"}) =>
            \A i \in 1..Len(tasks[t].calls) :
                LET call == tasks[t].calls[i]
                    r    == tasks[t].event.reaction
                IN  call.op = "create_feedback" =>
                        /\ call.rating \in {1, -1, 0}
                        /\ call.rating = 1 <=> r = "+1"
                        /\ call.rating = -1 <=> r = "-1"

C5_Witness ==
    \E t \in DOMAIN tasks :
        /\ Runs(t, {"reaction_added"})
        /\ tasks[t].event.reaction = "thumbsup"
        /\ Len(tasks[t].calls) = 2
        /\ tasks[t].calls[2].op = "create_feedback"
        /\ tasks[t].calls[2].rating = 0

\* C6: in docsbot_handler, adcopy_handler and handle_adcopy_action every send
\* is threaded to the thread of the originating message (its thread_ts when it
\* has one, otherwise its ts), and docsbot's get_chat_history and
\* create_question_answer are given the same thread id.
C6_ThreadIdResolution ==
    \A t \in DOMAIN tasks :
        Runs(t, ActionHandlers) =>
            \A i \in 1..Len(tasks[t].calls) :
                LET call == tasks[t].calls[i]
                    th   == ThreadOf(tasks[t].initial_message)
                IN  /\ call.op = "say" =>
                           "thread_ts" \in DOMAIN call /\ call.thread_ts = th
                    /\ call.op \in {"get_chat_history", "create_question_answer"} =>
                           call.thread_id = th

C6_Witness ==
    \E t \in DOMAIN tasks :
        /\ DocsbotCompleted(t)
        /\ tasks[t].initial_message.thread_ts = "T1"
        /\ tasks[t].initial_message.ts = "T2"
        /\ \E q \in qa_store :
               q.thread_id = "T1" /\ q.question_answer_id = tasks[t].sent_ts

\* C7: handle_mention sends exactly one message, the menu block built for the
\* mentioning user, threaded at the event's own ts, and calls nothing else.
C7_MentionSendsMenuOnly ==
    \A t \in DOMAIN tasks :
        Runs(t, {"app_mention"}) =>
            LET c == tasks[t].calls
                e == tasks[t].event
            IN  /\ Len(c) <= 1
                /\ tasks[t].pc = "done" => Len(c) = 1
                /\ \A i \in 1..Len(c) :
                       /\ c[i].op = "say"
                       /\ c[i].op \notin ApiOps
                       /\ c[i].blocks = [blocks |-> "init_block", user |-> e.user]
                       /\ c[i].thread_ts = e.ts

C7_Witness ==
    \E t \in DOMAIN tasks :
        /\ Runs(t, {"app_mention"})
        /\ tasks[t].outcome = "returned"
        /\ tasks[t].event.ts = "T2" /\ tasks[t].event.thread_ts = "T1"
        /\ \E i \in 1..Len(slack_msgs) : slack_msgs[i].thread_ts = "T2"

\* C8: no multi-step handler (docsbot, adcopy, the four ad-copy variants,
\* reaction_added) lets a failure of one of its calls propagate: a call that
\* raises is logged and the handler returns.
C8_FailuresAreSwallowed ==
    \A t \in DOMAIN tasks :
        Runs(t, ActionHandlers \cup {"reaction_added"}) =>
            /\ tasks[t].outcome # "raised"
            /\ tasks[t].raised_at # 0 => tasks[t].errors_logged = 1

\* The (action, persona) pair of each secondary action id.
C9_Pairs ==
    { <<"executive_awareness", "awareness", "executive">>,
      <<"executive_signups",   "signups",   "executive">>,
      <<"technical_awareness", "awareness", "technical">>,
      <<"technical_signups",   "signups",   "technical">> }

\* C9: the handler of a secondary action id calls, in order, ack, the
\* resolution of the originating message, generate_ads with the originating
\* text and the id's fixed (action, persona) pair, and one send of the
\* generated copy threaded to the resolved thread id; it calls nothing else,
\* and makes all four calls when none raises.
C9_AdcopyVariantSequence ==
    \A t \in DOMAIN tasks :
        Runs(t, AdcopyVariants) =>
            LET c == tasks[t].calls
                m == tasks[t].initial_message
            IN  /\ IsPrefix(Ops(c), <<"ack", "get_initial_message",
                                      "generate_ads", "say">>)
                /\ (tasks[t].pc = "done" /\ tasks[t].raised_at = 0) => Len(c) = 4
                /\ Len(c) >= 3 =>
                       /\ c[3].query = m.text
                       /\ <<tasks[t].handler, c[3].action, c[3].persona>> \in C9_Pairs
                /\ Len(c) >= 4 =>
                       /\ c[4].thread_ts = ThreadOf(m)
                       /\ c[4].text.ad_copies.query = m.text
                       /\ c[4].text.ad_copies.action = c[3].action
                       /\ c[4].text.ad_copies.persona = c[3].persona

C9_Witness ==
    \E t \in DOMAIN tasks :
        /\ Runs(t, {"technical_signups"})
        /\ tasks[t].outcome = "returned"
        /\ Len(tasks[t].calls) = 4
        /\ tasks[t].calls[3].action = "signups"
        /\ tasks[t].calls[3].persona = "technical"

\* What a call of docsbot_handler is: its operation, told apart by the message
\* sent or the reaction attached.
Step(call) ==
    CASE call.op = "say" -> IF IsIntro(call) THEN "intro" ELSE "answer"
      [] call.op = "reactions_add" -> call.name
      [] OTHER -> call.op

Steps(calls) == [i \in 1..Len(calls) |-> Step(calls[i])]

\* The statements of docsbot_handler in program order, with and without the
\* intro.
DocsbotOrder(with_intro) ==
    << "ack", "get_initial_message", "get_chat_history" >>
        \o (IF with_intro THEN << "intro" >> ELSE << >>)
        \o << "query", "answer", "thumbsup", "thumbsdown",
               "create_question_answer" >>

\* C13: in every execution of a docsbot interaction, cut short by a failure
\* or not, the calls made so far are a prefix of ack, the resolution of the
\* originating message, get_chat_history, (intro), query, answer, thumbsup,
\* thumbsdown, create_question_answer: no step is skipped, repeated or
\* retried; a call that fails is the last call made; an interaction that ends
\* without a failure has made every step; and create_question_answer is
\* called only after the answer was posted and both reactions were attached
\* to it.
C13_DocsbotStepOrder ==
    \A t \in DOMAIN tasks :
        Runs(t, {"docsbot"}) =>
            LET tk == tasks[t]
                c  == tk.calls
            IN  /\ \E with_intro \in BOOLEAN :
                       /\ IsPrefix(Steps(c), DocsbotOrder(with_intro))
                       /\ (tk.pc = "done" /\ tk.raised_at = 0) =>
                              Steps(c) = DocsbotOrder(with_intro)
                /\ tk.raised_at # 0 => (tk.pc = "done" /\ tk.raised_at = Len(c))
                /\ tk.errors_logged <= 1
                /\ (\E i \in 1..Len(c) : c[i].op = "create_question_answer") =>
                       /\ \E j \in 1..Len(slack_msgs) :
                              /\ slack_msgs[j].ts = tk.sent_ts
                              /\ "response" \in DOMAIN slack_msgs[j].content.mrkdwn
                       /\ {[ts |-> tk.sent_ts, name |-> n] :
                               n \in {"thumbsup", "thumbsdown"}} \subseteq slack_reactions
                       /\ c[Len(c)].question_answer_id = tk.sent_ts

\* An interaction that posted its answer and attached the first reaction, and
\* was then cut short by the failure of the second reactions_add.
C13_Witness ==
    \E t \in DOMAIN tasks :
        /\ Runs(t, {"docsbot"})
        /\ tasks[t].pc = "done"
        /\ tasks[t].raised_at = Len(tasks[t].calls)
        /\ Step(tasks[t].calls[Len(tasks[t].calls)]) = "thumbsdown"
        /\ [ts |-> tasks[t].sent_ts, name |-> "thumbsup"] \in slack_reactions
        /\ \A q \in qa_store : q.question_answer_id # tasks[t].sent_ts

-----------------------------------------------------------------------------
(* docsbot interactions one after another: each ends before the next starts *)

\* The number of docsbot interactions in a row.
MaxInteractions == 2

\* No record is persisted yet when the first interaction starts.
InitThread ==
    /\ language \in Languages
    /\ tasks = [t \in 1..MaxInteractions |-> IdleTask]
    /\ slack_msgs = <<>>
    /\ slack_reactions = {}
    /\ qa_store = {}
    /\ fb_store = {}
    /\ pf = PfIdle
    /\ prompt = PromptIdle
    /\ loaders = <<>>
    /\ storage = NoStorage

\* The docsbot button is pressed once every earlier interaction has ended.
DispatchDocsbotInTurn(t) ==
    /\ t \in DOMAIN tasks
    /\ tasks[t].pc = "idle"
    /\ \A u \in DOMAIN tasks : u < t => tasks[u].pc = "done"
    /\ \E b \in ActionBodies :
         tasks' = [tasks EXCEPT ![t] =
                     [@ EXCEPT !.handler = "docsbot", !.event = b,
                               !.pc = FirstPc("docsbot"), !.outcome = "running"]]
    /\ UNCHANGED <<language, slack_msgs, slack_reactions, qa_store, fb_store, lib_vars>>

NextThread ==
    \/ \E t \in DOMAIN tasks : DispatchDocsbotInTurn(t)
    \/ \E t \in DOMAIN tasks : docsbot_handler_ack(t)
    \/ \E t \in DOMAIN tasks : docsbot_handler_get_initial_message(t)
    \/ \E t \in DOMAIN tasks : docsbot_handler_get_chat_history(t)
    \/ \E t \in DOMAIN tasks : docsbot_handler_send_intro(t)
    \/ \E t \in DOMAIN tasks : docsbot_handler_query(t)
    \/ \E t \in DOMAIN tasks : docsbot_handler_send_answer(t)
    \/ \E t \in DOMAIN tasks : docsbot_handler_thumbsup(t)
    \/ \E t \in DOMAIN tasks : docsbot_handler_thumbsdown(t)
    \/ \E t \in DOMAIN tasks : docsbot_handler_create_question_answer(t)

SpecThread == InitThread /\ [][NextThread]_vars

\* Task t is a docsbot interaction on thread th: it resolved an originating
\* message of that thread.
OnThread(t, th) ==
    /\ Runs(t, {"docsbot"})
    /\ Len(tasks[t].calls) >= 2
    /\ tasks[t].raised_at # 2
    /\ ThreadOf(tasks[t].initial_message) = th

Threads == {ThreadOf(m) : m \in OriginMessages}

\* The intro messages task t posted.
IntrosPosted(t) ==
    {i \in Indices(tasks[t].calls, IsIntro) : tasks[t].raised_at # i}

\* Task t persisted its question-answer record.
Persisted(t) ==
    \E i \in 1..Len(tasks[t].calls) :
        /\ tasks[t].calls[i].op = "create_question_answer"
        /\ tasks[t].raised_at # i

\* C14 as claimed: once the docsbot interactions on a thread, run one after
\* another, have all ended, exactly one intro message was sent to the thread,
\* and the first of the interactions sent it.
C14_IntroExactlyOncePerThread ==
    \A th \in Threads :
        LET on == {t \in DOMAIN tasks : OnThread(t, th)}
        IN  (on # {} /\ \A t \in on : tasks[t].pc = "done") =>
                /\ \A t \in on :
                       Cardinality(IntrosPosted(t)) =
                           IF \A u \in on : t <= u THEN 1 ELSE 0
                /\ Cardinality({i \in 1..Len(slack_msgs) :
                                   /\ slack_msgs[i].thread_ts = th
                                   /\ "template" \in DOMAIN slack_msgs[i].content.mrkdwn})
                       = 1

\* C14 as amended: among docsbot interactions on a thread run one after
\* another, an interaction that fetched the history found it empty exactly
\* when no earlier interaction on the thread persisted its record, and it
\* issues the intro exactly then; so no interaction after one that persisted
\* sends the intro, and when the first interaction ends without a failure
\* the thread gets exactly one intro however many interactions follow.
C14_IntroUntilFirstRecord ==
    \A th \in Threads :
        LET on == {t \in DOMAIN tasks : OnThread(t, th)}
        IN  /\ \A t \in on :
                   LET earlier == \E u \in on : u < t /\ Persisted(u)
                   IN  /\ HistoryFetched(t) =>
                              (tasks[t].chat_history = {} <=> ~earlier)
                       /\ (HistoryFetched(t) /\ tasks[t].pc # "send_intro") =>
                              Cardinality(Indices(tasks[t].calls, IsIntro))
                                  = IF earlier THEN 0 ELSE 1
                       /\ ~HistoryFetched(t) =>
                              Indices(tasks[t].calls, IsIntro) = {}
            /\ (\E t \in on : (\A u \in on : t <= u) /\ DocsbotCompleted(t)) =>
                   Cardinality({i \in 1..Len(slack_msgs) :
                                   /\ slack_msgs[i].thread_ts = th
                                   /\ "template" \in DOMAIN slack_msgs[i].content.mrkdwn})
                       = 1

\* The first interaction on a thread posted the intro and failed before its
\* record was persisted; the next one on the thread posted the intro again.
C14_Witness ==
    \E t, u \in DOMAIN tasks :
        /\ t < u
        /\ \E th \in Threads : OnThread(t, th) /\ OnThread(u, th)
        /\ IntrosPosted(t) # {} /\ ~Persisted(t) /\ tasks[t].pc = "done"
        /\ IntrosPosted(u) # {} /\ Persisted(u)

-----------------------------------------------------------------------------
(* docsbot interactions in flight together *)

\* Two docsbot interactions, in flight together.
Racers == {1, 2}

InitRace ==
    /\ language \in Languages
    /\ tasks = [t \in Racers |-> IdleTask]
    /\ slack_msgs = <<>>
    /\ slack_reactions = {}
    /\ qa_store \in SUBSET EarlierRecords
    /\ fb_store = {}
    /\ pf = PfIdle
    /\ prompt = PromptIdle
    /\ loaders = <<>>
    /\ storage = NoStorage

\* The docsbot button is pressed while earlier interactions may still run.
DispatchDocsbot(t) ==
    /\ t \in DOMAIN tasks
    /\ tasks[t].pc = "idle"
    /\ \A u \in DOMAIN tasks : u < t => tasks[u].pc # "idle"
    /\ \E b \in ActionBodies :
         tasks' = [tasks EXCEPT ![t] =
                     [@ EXCEPT !.handler = "docsbot", !.event = b,
                               !.pc = FirstPc("docsbot"), !.outcome = "running"]]
    /\ UNCHANGED <<language, slack_msgs, slack_reactions, qa_store, fb_store, lib_vars>>

NextRace ==
    \/ \E t \in DOMAIN tasks : DispatchDocsbot(t)
    \/ \E t \in DOMAIN tasks : docsbot_handler_ack(t)
    \/ \E t \in DOMAIN tasks : docsbot_handler_get_initial_message(t)
    \/ \E t \in DOMAIN tasks : docsbot_handler_get_chat_history(t)
    \/ \E t \in DOMAIN tasks : docsbot_handler_send_intro(t)
    \/ \E t \in DOMAIN tasks : docsbot_handler_query(t)
    \/ \E t \in DOMAIN tasks : docsbot_handler_send_answer(t)
    \/ \E t \in DOMAIN tasks : docsbot_handler_thumbsup(t)
    \/ \E t \in DOMAIN tasks : docsbot_handler_thumbsdown(t)
    \/ \E t \in DOMAIN tasks : docsbot_handler_create_question_answer(t)

SpecRace == InitRace /\ [][NextRace]_vars

\* The messages of thread th that carry the intro.
IntrosIn(th) ==
    {i \in 1..Len(slack_msgs) :
        /\ slack_msgs[i].thread_ts = th
        /\ "template" \in DOMAIN slack_msgs[i].content.mrkdwn}

\* C15: nothing in the handler keeps two docsbot interactions on one thread
\* from both sending the intro. Each one that fetched an empty history issues
\* the intro as its next call, whether or not the thread already holds an
\* intro, and when both were fetched before either persisted a record and
\* neither send failed, the thread holds two intro messages.
C15_BothSendIntro ==
    \A t, u \in DOMAIN tasks :
        \A th \in Threads :
            (t # u /\ OnThread(t, th) /\ OnThread(u, th)
                  /\ HistoryFetched(t) /\ tasks[t].chat_history = {}
                  /\ HistoryFetched(u) /\ tasks[u].chat_history = {}
                  /\ tasks[t].pc # "send_intro" /\ tasks[u].pc # "send_intro") =>
                /\ Indices(tasks[t].calls, IsIntro) = {4}
                /\ Indices(tasks[u].calls, IsIntro) = {4}
                /\ (tasks[t].raised_at # 4 /\ tasks[u].raised_at # 4) =>
                       Cardinality(IntrosIn(th)) = 2

\* Two interactions on one thread, each of which fetched an empty history
\* while the other had not persisted its record, and two intro messages in
\* that thread.
C15_Witness ==
    \E th \in Threads :
        /\ OnThread(1, th) /\ OnThread(2, th)
        /\ tasks[1].chat_history = {} /\ tasks[2].chat_history = {}
        /\ IntrosPosted(1) # {} /\ IntrosPosted(2) # {}
        /\ ~Persisted(1) /\ ~Persisted(2)
        /\ Cardinality(IntrosIn(th)) = 2

\* The calls docsbot_handler makes when it runs alone and no call raises, as a
\* function of its event (body), the configuration and the responses it gets:
\* the resolved message, the history, the API's answer and the ts Slack gave
\* the posted answer.
CallsAlone(body, initial_message, chat_history, api_response, sent_ts, lang) ==
    LET query     == initial_message.text
        user      == initial_message.user
        thread_id == Or(initial_message.thread_ts, initial_message.ts)
        response  == [ response |-> api_response,
                       outro    |-> config(lang).OUTRO_MESSAGE,
                       language |-> config(lang).bot_language ]
    IN  << AckCall,
           GetInitialMessageCall(body, lang),
           GetChatHistoryCall(thread_id, lang) >>
        \o (IF chat_history = {}
            THEN << send_message(IntroMessage(lang, user), thread_id, lang) >>
            ELSE << >>)
        \o << QueryCall(query, chat_history, lang),
               send_message(response, thread_id, lang),
               ReactionsAddCall(body.channel.id, sent_ts, "thumbsup", lang),
               ReactionsAddCall(body.channel.id, sent_ts, "thumbsdown", lang),
               CreateQuestionAnswerCall(thread_id, sent_ts, api_response, lang) >>

\* C17: whatever other invocation runs at the same time and however the two
\* interleave at their awaits, the calls an invocation of docsbot_handler has
\* issued, with their arguments, are the calls it issues running alone: they
\* are determined by its own event, the configuration and the responses it
\* received, and stop at the first call that raises.
C17_CallsDependOnOwnEventOnly ==
    \A t \in DOMAIN tasks :
        Runs(t, {"docsbot"}) =>
            LET tk    == tasks[t]
                alone == CallsAlone(tk.event, tk.initial_message, tk.chat_history,
                                    tk.api_response, tk.sent_ts, language)
            IN  /\ IsPrefix(tk.calls, alone)
                /\ (tk.pc = "done" /\ tk.raised_at = 0) => tk.calls = alone
                /\ tk.raised_at # 0 => tk.raised_at = Len(tk.calls)

\* Two interactions on different threads whose calls interleaved: both posted
\* their intro before either posted its answer, and both ran to the end.
C17_Witness ==
    /\ DocsbotCompleted(1) /\ DocsbotCompleted(2)
    /\ ThreadOf(tasks[1].initial_message) # ThreadOf(tasks[2].initial_message)
    /\ tasks[1].chat_history = {} /\ tasks[2].chat_history = {}
    /\ tasks[1].sent_ts = "S4" /\ tasks[2].sent_ts = "S3"

-----------------------------------------------------------------------------
(* A docsbot interaction and the reactions users add to its messages *)

\* A user reacts to a message the bot has posted; Slack delivers the event
\* while earlier invocations may still run.
DispatchReaction(t) ==
    /\ t \in DOMAIN tasks
    /\ tasks[t].pc = "idle"
    /\ \A u \in DOMAIN tasks : u < t => tasks[u].pc # "idle"
    /\ \E r \in Reactions, i \in 1..Len(slack_msgs) :
         tasks' = [tasks EXCEPT ![t] =
                     [@ EXCEPT !.handler = "reaction_added",
                               !.event = [ item |-> [channel |-> "C1",
                                                     ts |-> slack_msgs[i].ts],
                                           reaction |-> r,
                                           event_ts |-> EventTs(t) ],
                               !.pc = FirstPc("reaction_added"),
                               !.outcome = "running"]]
    /\ UNCHANGED <<language, slack_msgs, slack_reactions, qa_store, fb_store, lib_vars>>

NextFeedback ==
    \/ \E t \in DOMAIN tasks : DispatchDocsbot(t)
    \/ \E t \in DOMAIN tasks : DispatchReaction(t)
    \/ \E t \in DOMAIN tasks : docsbot_handler_ack(t)
    \/ \E t \in DOMAIN tasks : docsbot_handler_get_initial_message(t)
    \/ \E t \in DOMAIN tasks : docsbot_handler_get_chat_history(t)
    \/ \E t \in DOMAIN tasks : docsbot_handler_send_intro(t)
    \/ \E t \in DOMAIN tasks : docsbot_handler_query(t)
    \/ \E t \in DOMAIN tasks : docsbot_handler_send_answer(t)
    \/ \E t \in DOMAIN tasks : docsbot_handler_thumbsup(t)
    \/ \E t \in DOMAIN tasks : docsbot_handler_thumbsdown(t)
    \/ \E t \in DOMAIN tasks : docsbot_handler_create_question_answer(t)
    \/ \E t \in DOMAIN tasks : handle_reaction_added_conversations_replies(t)
    \/ \E t \in DOMAIN tasks : handle_reaction_added_create_feedback(t)

SpecFeedback == InitRace /\ [][NextFeedback]_vars

\* The ts of the answers docsbot_handler has posted.
AnswersPosted ==
    {tasks[u].sent_ts : u \in {v \in DOMAIN tasks :
                                  Runs(v, {"docsbot"}) /\ tasks[v].sent_ts # None}}

\* C16: whenever create_feedback has been called with the ts of an answer
\* docsbot_handler posted as question_answer_id, create_question_answer has
\* completed for that id: the record the feedback refers to exists, under
\* every interleaving of the two handlers and when a reactions_add or the
\* persist call fails.
C16_FeedbackHasRecord ==
    \A t \in DOMAIN tasks :
        Runs(t, {"reaction_added"}) =>
            \A i \in 1..Len(tasks[t].calls) :
                (tasks[t].calls[i].op = "create_feedback"
                     /\ tasks[t].calls[i].question_answer_id \in AnswersPosted) =>
                    \E q \in qa_store :
                        q.question_answer_id = tasks[t].calls[i].question_answer_id

-----------------------------------------------------------------------------
(* Strings of wandbot/chat/prompts.py: sequences of one-character strings *)

LBrace == <<"{">>

RBrace == <<"}">>

\* "TEMP_PLACEHOLDER_"
TEMP_PLACEHOLDER ==
    << "T", "E", "M", "P", "_", "P", "L", "A", "C", "E", "H", "O", "L", "D",
       "E", "R", "_" >>

\* s[i:].startswith(old)
StartsWith(s, i, old) ==
    /\ i + Len(old) - 1 <= Len(s)
    /\ SubSeq(s, i, i + Len(old) - 1) = old

RECURSIVE ReplaceFrom(_, _, _, _)
ReplaceFrom(s, i, old, new) ==
    IF i > Len(s) THEN <<>>
    ELSE IF StartsWith(s, i, old)
         THEN new \o ReplaceFrom(s, i + Len(old), old, new)
         ELSE <<s[i]>> \o ReplaceFrom(s, i + 1, old, new)

\* s.replace(old, new), old not empty: every occurrence of old, leftmost first,
\* none overlapping another
replace(s, old, new) == ReplaceFrom(s, 1, old, new)

-----------------------------------------------------------------------------
(* The format-string scanner behind Formatter().parse and str.format *)

\* The first "{" or "}" at or after position i; 0 when there is none.
RECURSIVE FirstBrace(_, _)
FirstBrace(s, i) ==
    IF i > Len(s) THEN 0
    ELSE IF s[i] \in {"{", "}"} THEN i
    ELSE FirstBrace(s, i + 1)

\* The "}" that ends the field name starting at position i; 0 when the string
\* ends first, -1 when a "{" comes first.
RECURSIVE FieldEnd(_, _)
FieldEnd(s, i) ==
    IF i > Len(s) THEN 0
    ELSE IF s[i] = "{" THEN -1
    ELSE IF s[i] = "}" THEN i
    ELSE FieldEnd(s, i + 1)

MarkupError(msg) ==
    [ err |-> msg, literal |-> <<>>, field_present |-> FALSE,
      field_name |-> <<>>, next |-> 0 ]

\* One (literal_text, field_name) item of the scanner, read from position i:
\* the literal up to the next brace, with "{{" and "}}" read as one brace, and
\* the replacement field that follows it, if one does.
MarkupNext(s, i) ==
    LET p == FirstBrace(s, i)
    IN  IF p = 0
        THEN [ err |-> "", literal |-> SubSeq(s, i, Len(s)),
               field_present |-> FALSE, field_name |-> <<>>, next |-> Len(s) + 1 ]
        ELSE IF s[p] = "}" /\ (p = Len(s) \/ s[p + 1] # "}")
        THEN MarkupError("Single '}' encountered in format string")
        ELSE IF p = Len(s)
        THEN MarkupError("Single '{' encountered in format string")
        ELSE IF s[p + 1] = s[p]
        THEN [ err |-> "", literal |-> SubSeq(s, i, p),
               field_present |-> FALSE, field_name |-> <<>>, next |-> p + 2 ]
        ELSE LET q == FieldEnd(s, p + 1)
             IN  IF q = -1
                 THEN MarkupError("unexpected '{' in field name")
                 ELSE IF q = 0
                 THEN MarkupError("expected '}' before end of string")
                 ELSE [ err |-> "", literal |-> SubSeq(s, i, p - 1),
                        field_present |-> TRUE,
                        field_name |-> SubSeq(s, p + 1, q - 1), next |-> q + 1 ]

\* list(Formatter().parse(s)): the items in order, or the ValueError raised.
RECURSIVE ParseFrom(_, _)
ParseFrom(s, i) ==
    IF i > Len(s) THEN [err |-> "", items |-> <<>>]
    ELSE LET item == MarkupNext(s, i)
         IN  IF item.err # "" THEN [err |-> item.err, items |-> <<>>]
             ELSE LET rest == ParseFrom(s, item.next)
                  IN  [err |-> rest.err, items |-> <<item>> \o rest.items]

Formatter_parse(s) == ParseFrom(s, 1)

\* s.format(**kwargs): items are rendered as they are scanned, so the first
\* failure met from the left is the one raised.  An empty field name is an
\* automatic positional index, and no positional argument is given.
RECURSIVE FormatFrom(_, _, _)
FormatFrom(s, i, kwargs) ==
    IF i > Len(s) THEN [exc |-> "", value |-> <<>>]
    ELSE LET item == MarkupNext(s, i)
         IN  IF item.err # "" THEN [exc |-> "ValueError", value |-> <<>>]
             ELSE IF item.field_present /\ item.field_name = <<>>
             THEN [exc |-> "IndexError", value |-> <<>>]
             ELSE IF item.field_present /\ item.field_name \notin DOMAIN kwargs
             THEN [exc |-> "KeyError", value |-> <<>>]
             ELSE LET rest == FormatFrom(s, item.next, kwargs)
                      here == IF item.field_present
                              THEN item.literal \o kwargs[item.field_name]
                              ELSE item.literal
                  IN  IF rest.exc # "" THEN rest
                      ELSE [exc |-> "", value |-> here \o rest.value]

str_format(s, kwargs) == FormatFrom(s, 1, kwargs)

-----------------------------------------------------------------------------
(* partial_format *)

\* place_holders = set([x[1] for x in Formatter().parse(s) if x[1] is not None])
place_holders(s) ==
    LET parsed == Formatter_parse(s)
    IN  { parsed.items[i].field_name :
            i \in {j \in 1..Len(parsed.items) : parsed.items[j].field_present} }

\* The orders in which a set may be iterated: Python fixes none for a set of
\* strings (it follows the hash seed of the process), and iterating the same
\* unchanged set again gives the same order.
IterationOrders(S) ==
    { o \in [1..Cardinality(S) -> S] : \A k \in S : \E i \in DOMAIN o : o[i] = k }

\* replacements = {k: kwargs.get(k, "{" + k + "}") for k in place_holders}
replacements(names, kwargs) ==
    [ k \in names |->
        IF k \in DOMAIN kwargs THEN kwargs[k] ELSE LBrace \o k \o RBrace ]

\* for k in place_holders: s = s.replace("{" + k + "}", "TEMP_PLACEHOLDER_" + k)
RECURSIVE mask(_, _, _)
mask(s, order, i) ==
    IF i > Len(order) THEN s
    ELSE mask(replace(s, LBrace \o order[i] \o RBrace, TEMP_PLACEHOLDER \o order[i]),
              order, i + 1)

\* s = s.replace("{", "{{").replace("}", "}}")
escape(s) == replace(replace(s, LBrace, LBrace \o LBrace), RBrace, RBrace \o RBrace)

\* for k in place_holders: s = s.replace("TEMP_PLACEHOLDER_" + k, "{" + k + "}")
RECURSIVE restore(_, _, _)
restore(s, order, i) ==
    IF i > Len(order) THEN s
    ELSE restore(replace(s, TEMP_PLACEHOLDER \o order[i], LBrace \o order[i] \o RBrace),
                 order, i + 1)

\* partial_format(s, **kwargs), the set place_holders being iterated in `order`:
\* the string returned (value), or the exception raised (exc).
partial_format(s, kwargs, order) ==
    IF Formatter_parse(s).err # "" THEN [exc |-> "ValueError", value |-> <<>>]
    ELSE str_format(restore(escape(mask(s, order, 1)), order, 1),
                    replacements(place_holders(s), kwargs))

-----------------------------------------------------------------------------
(* Calls of partial_format *)

\* The number of pieces a template is put together from, at most.
MaxPieces == 3

\* The pieces: the placeholders {a} and {ab}, escaped and single braces, plain
\* text, the escaped text {{a}}, and the text TEMP_PLACEHOLDER_a.
Pieces ==
    { <<"{", "a", "}">>, <<"{", "a", "b", "}">>, <<"{", "{">>, <<"}", "}">>,
      <<"{">>, <<"}">>, <<"a">>, <<"{", "{", "a", "}", "}">>,
      TEMP_PLACEHOLDER \o <<"a">> }

RECURSIVE Concat(_)
Concat(ps) == IF ps = <<>> THEN <<>> ELSE Head(ps) \o Concat(Tail(ps))

Templates ==
    UNION { {Concat(ps) : ps \in [1..n -> Pieces]} : n \in 0..MaxPieces }

\* The keyword arguments of a call: each of the names a and ab is left out,
\* or given a plain value or a value that holds braces.
KeywordNames == { <<"a">>, <<"a", "b">> }

KeywordValues == { <<"X">>, <<"{", "b", "}">> }

KeywordArguments ==
    UNION { [names -> KeywordValues] : names \in SUBSET KeywordNames }

NoKeywordArguments == [k \in {} |-> <<>>]

InitFormat ==
    /\ language = "en"
    /\ tasks = <<>>
    /\ slack_msgs = <<>>
    /\ slack_reactions = {}
    /\ qa_store = {}
    /\ fb_store = {}
    /\ \E s \in Templates, kwargs \in KeywordArguments :
         pf = [ state |-> "called", s |-> s, kwargs |-> kwargs, order |-> <<>>,
                exc |-> "", value |-> <<>>,
                kwargs2 |-> NoKeywordArguments, order2 |-> <<>>,
                exc2 |-> "", value2 |-> <<>> ]
    /\ prompt = PromptIdle
    /\ loaders = <<>>
    /\ storage = NoStorage

call_partial_format ==
    /\ pf.state = "called"
    /\ \E order \in IterationOrders(place_holders(pf.s)) :
         LET r == partial_format(pf.s, pf.kwargs, order)
         IN  pf' = [pf EXCEPT !.state = "returned", !.order = order,
                              !.exc = r.exc, !.value = r.value]
    /\ UNCHANGED <<slack_vars, prompt, loaders, storage>>

\* The caller formats the returned text once more, with keyword arguments for
\* names the first call was not given.
call_partial_format_again ==
    /\ pf.state = "returned"
    /\ pf.exc = ""
    /\ \E kwargs2 \in KeywordArguments :
         /\ DOMAIN kwargs2 \cap DOMAIN pf.kwargs = {}
         /\ \E order2 \in IterationOrders(place_holders(pf.value)) :
              LET r == partial_format(pf.value, kwargs2, order2)
              IN  pf' = [pf EXCEPT !.state = "returned_again",
                                   !.kwargs2 = kwargs2, !.order2 = order2,
                                   !.exc2 = r.exc, !.value2 = r.value]
    /\ UNCHANGED <<slack_vars, prompt, loaders, storage>>

NextFormat ==
    \/ call_partial_format
    \/ call_partial_format_again

SpecFormat == InitFormat /\ [][NextFormat]_vars

-----------------------------------------------------------------------------
(* Properties of partial_format *)

\* The template scans without error and every placeholder has a name.
WellFormed(s) ==
    /\ Formatter_parse(s).err = ""
    /\ <<>> \notin place_holders(s)

\* The template with every placeholder named in kwargs replaced by its value
\* and everything else, escaped braces included, left as written.
RECURSIVE SubstitutedFrom(_, _, _)
SubstitutedFrom(s, i, kwargs) ==
    IF i > Len(s) THEN <<>>
    ELSE IF StartsWith(s, i, <<"{", "{">>) \/ StartsWith(s, i, <<"}", "}">>)
    THEN SubSeq(s, i, i + 1) \o SubstitutedFrom(s, i + 2, kwargs)
    ELSE IF s[i] = "{"
    THEN LET q    == FieldEnd(s, i + 1)
             name == SubSeq(s, i + 1, q - 1)
         IN  (IF name \in DOMAIN kwargs THEN kwargs[name] ELSE SubSeq(s, i, q))
                 \o SubstitutedFrom(s, q + 1, kwargs)
    ELSE <<s[i]>> \o SubstitutedFrom(s, i + 1, kwargs)

\* C10: for every template with well-formed placeholders and every
\* substitution set, partial_format returns the template with each placeholder
\* named in the set replaced by its value, each other placeholder left as
\* {name} and every literal brace unchanged, whatever the placeholder names
\* (one may be a prefix of another, as in {a} and {ab}).
C10_PartialFormatContract ==
    (pf.state = "returned" /\ WellFormed(pf.s)) =>
        /\ pf.exc = ""
        /\ pf.value = SubstitutedFrom(pf.s, 1, pf.kwargs)

\* The keyword arguments of two calls with different names, taken together.
Merged(kwargs, kwargs2) ==
    [k \in DOMAIN kwargs \cup DOMAIN kwargs2 |->
        IF k \in DOMAIN kwargs THEN kwargs[k] ELSE kwargs2[k]]

BraceFree(kwargs) ==
    \A k \in DOMAIN kwargs :
        \A i \in 1..Len(kwargs[k]) : kwargs[k][i] \notin {"{", "}"}

\* C11: for every template with well-formed placeholders and every
\* substitution set whose values hold no braces, the placeholder names parsed
\* from the text partial_format returns are exactly the template's names that
\* are not in the set (all of them when the set is empty), and a second call
\* with remaining names returns what some single call with all the names
\* returns.
C11_RoundTrip ==
    /\ (pf.state \in {"returned", "returned_again"}
            /\ WellFormed(pf.s) /\ BraceFree(pf.kwargs)) =>
          /\ pf.exc = ""
          /\ Formatter_parse(pf.value).err = ""
          /\ place_holders(pf.value) = place_holders(pf.s) \ DOMAIN pf.kwargs
    /\ (pf.state = "returned_again"
            /\ WellFormed(pf.s) /\ BraceFree(pf.kwargs)
            /\ BraceFree(pf.kwargs2)) =>
          \E order \in IterationOrders(place_holders(pf.s)) :
              partial_format(pf.s, Merged(pf.kwargs, pf.kwargs2), order)
                  = [exc |-> pf.exc2, value |-> pf.value2]

\* C18: for one template and one substitution set, the outcome of
\* partial_format is the same for every order in which the set of placeholder
\* names is iterated.
C18_OrderIndependent ==
    (pf.state = "returned") =>
        \A order \in IterationOrders(place_holders(pf.s)) :
            partial_format(pf.s, pf.kwargs, order)
                = [exc |-> pf.exc, value |-> pf.value]

-----------------------------------------------------------------------------
(* load_chat_prompt *)

\* ROLE_MAP = {"system": MessageRole.SYSTEM, "human": MessageRole.USER,
\*             "assistant": MessageRole.ASSISTANT}
ROLE_MAP == [system |-> "SYSTEM", human |-> "USER", assistant |-> "ASSISTANT"]

ChatMessage(role, content) == [role |-> role, content |-> content]

language_code_name ==
    <<"l", "a", "n", "g", "u", "a", "g", "e", "_", "c", "o", "d", "e">>

query_intent_name ==
    <<"q", "u", "e", "r", "y", "_", "i", "n", "t", "e", "n", "t">>

\* partial_format(..., language_code=language_code, query_intent=query_intent)
prompt_kwargs(language_code, query_intent) ==
    [k \in {language_code_name, query_intent_name} |->
        IF k = language_code_name THEN language_code ELSE query_intent]

\* The number of pieces the human template of a prompt file is put together
\* from, at most.
MaxHumanPieces == 2

\* The pieces: the placeholders {language_code}, {query_intent} and {query},
\* plain text, and an escaped pair of braces.
HumanPieces ==
    { LBrace \o language_code_name \o RBrace,
      LBrace \o query_intent_name \o RBrace,
      <<"{", "q", "u", "e", "r", "y", "}">>,
      <<"Q", ":">>,
      <<"{", "{", "}", "}">> }

HumanTemplates ==
    UNION { {Concat(ps) : ps \in [1..n -> HumanPieces]} : n \in 0..MaxHumanPieces }

\* A message object of the file: its (role, content) items in file order.
Item(k, v) == [key |-> k, value |-> v]

\* The message objects that may come before the last one: one role each, one
\* whose content holds a placeholder, one with two items, one with a role
\* ROLE_MAP does not know.
LeadingObjects ==
    { << Item("system", <<"S">>) >>,
      << Item("human", <<"{", "q", "u", "e", "r", "y", "}">>) >>,
      << Item("assistant", <<"A">>) >>,
      << Item("system", <<"S">>), Item("human", <<"H">>) >>,
      << Item("tool", <<"T">>) >> }

\* The number of message objects before the last one, at most.
MaxLeading == 2

\* The last message object: one with a human template, alone or after another
\* item, or one without.
LastObjects ==
    { << Item("human", h) >> : h \in HumanTemplates }
    \cup { << Item("assistant", <<"A">>), Item("human", h) >> :
              h \in { LBrace \o query_intent_name \o RBrace } }
    \cup { << Item("system", <<"S">>) >> }

\* template["messages"] of the files load_chat_prompt may be given.
PromptFiles ==
    { <<>> } \cup
    UNION { {lead \o <<last>> : lead \in [1..n -> LeadingObjects],
                                 last \in LastObjects} : n \in 0..MaxLeading }

LanguageCodes == { <<"e", "n">>, <<"j", "a">> }

QueryIntents == { <<>>, <<"h", "o", "w">> }

InitPrompt ==
    /\ language = "en"
    /\ tasks = <<>>
    /\ slack_msgs = <<>>
    /\ slack_reactions = {}
    /\ qa_store = {}
    /\ fb_store = {}
    /\ pf = PfIdle
    /\ loaders = <<>>
    /\ storage = NoStorage
    /\ \E file \in PromptFiles, lc \in LanguageCodes, qi \in QueryIntents :
         prompt = [ state |-> "called", file |-> file, language_code |-> lc,
                    query_intent |-> qi, order |-> <<>>, exc |-> "",
                    messages |-> <<>> ]

\* message["human"] and the iteration of message.items()
HasKey(object, k) == \E i \in 1..Len(object) : object[i].key = k

Get(object, k) ==
    object[CHOOSE i \in 1..Len(object) : object[i].key = k].value

\* What load_chat_prompt returns or raises for a file, with the placeholder
\* set of the human template iterated in the given order.
load_chat_prompt(file, language_code, query_intent, order) ==
    IF file = <<>>
    THEN [exc |-> "IndexError", messages |-> <<>>]
    ELSE IF ~HasKey(file[Len(file)], "human")
    THEN [exc |-> "KeyError", messages |-> <<>>]
    ELSE LET human_template ==
                 partial_format(Get(file[Len(file)], "human"),
                                prompt_kwargs(language_code, query_intent), order)
             items == Concat(SubSeq(file, 1, Len(file) - 1))
         IN  IF human_template.exc # ""
             THEN [exc |-> human_template.exc, messages |-> <<>>]
             ELSE IF \E i \in 1..Len(items) : items[i].key \notin DOMAIN ROLE_MAP
             THEN [exc |-> "KeyError", messages |-> <<>>]
             ELSE [ exc |-> "",
                    messages |->
                        [i \in 1..Len(items) |->
                            ChatMessage(ROLE_MAP[items[i].key], items[i].value)]
                        \o << ChatMessage("USER", human_template.value) >> ]

call_load_chat_prompt ==
    /\ prompt.state = "called"
    /\ \E order \in IterationOrders(
                        IF prompt.file # <<>> /\ HasKey(prompt.file[Len(prompt.file)], "human")
                        THEN place_holders(Get(prompt.file[Len(prompt.file)], "human"))
                        ELSE {}) :
         LET r == load_chat_prompt(prompt.file, prompt.language_code,
                                   prompt.query_intent, order)
         IN  prompt' = [prompt EXCEPT !.state = "returned", !.order = order,
                                      !.exc = r.exc, !.messages = r.messages]
    /\ UNCHANGED <<slack_vars, pf, loaders, storage>>

NextPrompt == call_load_chat_prompt

SpecPrompt == InitPrompt /\ [][NextPrompt]_vars

\* The file has a last message with a well-formed human template, and every
\* role before it is one of system, human, assistant.
ReadablePromptFile(file) ==
    /\ file # <<>>
    /\ HasKey(file[Len(file)], "human")
    /\ WellFormed(Get(file[Len(file)], "human"))
    /\ \A i \in 1..(Len(file) - 1) :
           \A j \in 1..Len(file[i]) : file[i][j].key \in DOMAIN ROLE_MAP

\* C19: for a prompt file with roles system, human and assistant, the messages
\* load_chat_prompt produces are, in file order, one message per role-tagged
\* item of all but the last file message, its role mapped by ROLE_MAP and its
\* content unchanged, followed by one USER message whose content is the last
\* message's human template with {language_code} and {query_intent} replaced
\* by their values and every other placeholder and every literal brace left
\* as written.
C19_PromptStructure ==
    (prompt.state = "returned" /\ ReadablePromptFile(prompt.file)) =>
        LET file  == prompt.file
            items == Concat(SubSeq(file, 1, Len(file) - 1))
        IN  /\ prompt.exc = ""
            /\ Len(prompt.messages) = Len(items) + 1
            /\ \A i \in 1..Len(items) :
                   /\ prompt.messages[i].content = items[i].value
                   /\ prompt.messages[i].role =
                          CASE items[i].key = "system"    -> "SYSTEM"
                            [] items[i].key = "human"     -> "USER"
                            [] items[i].key = "assistant" -> "ASSISTANT"
            /\ prompt.messages[Len(items) + 1] =
                   ChatMessage("USER",
                       SubstitutedFrom(Get(file[Len(file)], "human"), 1,
                           prompt_kwargs(prompt.language_code, prompt.query_intent)))

-----------------------------------------------------------------------------
(* load_index (wandbot/utils.py) *)

\* The number of callers of load_index that may run together.
MaxLoaders == 2

PersistDirs == {"d1", "d2"}

NodeSets == {"N1", "N2"}

\* An index: the nodes it was built from and the caller that built it (0: it
\* was built before this run).
NoIndex == [nodes |-> None, built_by |-> 0]

OldIndex == [nodes |-> "N0", built_by |-> 0]

\* loaders[c]: the caller's position, its arguments (the storage context reads
\* the location persist_dir names), whether the load returned, the local
\* index, the calls made in order, and how the function ended.
IdleLoader ==
    [ pc |-> "idle", nodes |-> None, persist_dir |-> None, loaded |-> FALSE,
      index |-> NoIndex, calls |-> <<>>, outcome |-> "idle", returned |-> NoIndex ]

InitIndex ==
    /\ language = "en"
    /\ tasks = <<>>
    /\ slack_msgs = <<>>
    /\ slack_reactions = {}
    /\ qa_store = {}
    /\ fb_store = {}
    /\ pf = PfIdle
    /\ prompt = PromptIdle
    /\ loaders = [c \in 1..MaxLoaders |-> IdleLoader]
    /\ storage \in [PersistDirs -> {NoIndex, OldIndex}]

\* Faulty variant: the index is rebuilt and persisted even when it was loaded.
load_index_next_rebuild(pc, load_ok) ==
    CASE pc = "load"    -> "build"
      [] pc = "build"   -> "persist"
      [] pc = "persist" -> "done"

\* The statement that follows each call: the except branch is entered only
\* when load_index_from_storage raised.
load_index_next(pc, load_ok) ==
    CASE pc = "load"    -> IF load_ok THEN "done" ELSE "build"
      [] pc = "build"   -> "persist"
      [] pc = "persist" -> "done"

\* The caller after a call returned (ok) or, for the load, raised (~ok).
LoaderProceed(ld, call, ok) ==
    LET nxt == load_index_next(ld.pc, ok)
        got == [ld EXCEPT !.calls = Append(@, call)]
    IN  IF nxt = "done"
        THEN [got EXCEPT !.pc = "done", !.outcome = "returned", !.returned = got.index]
        ELSE [got EXCEPT !.pc = nxt]

\* An exception leaves load_index.
LoaderRaise(ld, call) ==
    [ld EXCEPT !.calls = Append(@, call), !.pc = "done", !.outcome = "raised"]

call_load_index(c) ==
    /\ c \in DOMAIN loaders
    /\ loaders[c].pc = "idle"
    /\ \E n \in NodeSets, d \in PersistDirs :
         loaders' = [loaders EXCEPT ![c] =
                        [@ EXCEPT !.pc = "load", !.nodes = n, !.persist_dir = d,
                                  !.outcome = "running"]]
    /\ UNCHANGED <<slack_vars, pf, prompt, storage>>

\* try: index = load_index_from_storage(storage_context)
\* except Exception: ...
load_index_from_storage(c) ==
    /\ c \in DOMAIN loaders
    /\ loaders[c].pc = "load"
    /\ LET ld   == loaders[c]
           call == [op |-> "load_index_from_storage", dir |-> ld.persist_dir]
       IN  \/ /\ storage[ld.persist_dir] # NoIndex
              /\ loaders' = [loaders EXCEPT ![c] =
                     LoaderProceed([ld EXCEPT !.loaded = TRUE,
                                              !.index = storage[ld.persist_dir]],
                                   call, TRUE)]
           \/ loaders' = [loaders EXCEPT ![c] = LoaderProceed(ld, call, FALSE)]
    /\ UNCHANGED <<slack_vars, pf, prompt, storage>>

\* index = VectorStoreIndex(nodes=nodes, ...)
load_index_build(c) ==
    /\ c \in DOMAIN loaders
    /\ loaders[c].pc = "build"
    /\ LET ld   == loaders[c]
           call == [op |-> "VectorStoreIndex", nodes |-> ld.nodes]
       IN  \/ loaders' = [loaders EXCEPT ![c] =
                     LoaderProceed([ld EXCEPT !.index =
                                       [nodes |-> ld.nodes, built_by |-> c]],
                                   call, TRUE)]
           \/ loaders' = [loaders EXCEPT ![c] = LoaderRaise(ld, call)]
    /\ UNCHANGED <<slack_vars, pf, prompt, storage>>

\* index.storage_context.persist(persist_dir=persist_dir); return index
load_index_persist(c) ==
    /\ c \in DOMAIN loaders
    /\ loaders[c].pc = "persist"
    /\ LET ld   == loaders[c]
           call == [op |-> "persist", persist_dir |-> ld.persist_dir]
       IN  \/ /\ loaders' = [loaders EXCEPT ![c] = LoaderProceed(ld, call, TRUE)]
              /\ storage' = [storage EXCEPT ![ld.persist_dir] = ld.index]
           \/ /\ loaders' = [loaders EXCEPT ![c] = LoaderRaise(ld, call)]
              /\ UNCHANGED storage
    /\ UNCHANGED <<slack_vars, pf, prompt>>

NextIndex ==
    \/ \E c \in DOMAIN loaders : call_load_index(c)
    \/ \E c \in DOMAIN loaders : load_index_from_storage(c)
    \/ \E c \in DOMAIN loaders : load_index_build(c)
    \/ \E c \in DOMAIN loaders : load_index_persist(c)

SpecIndex == InitIndex /\ [][NextIndex]_vars

\* The caller's load has been tried, and it raised.
LoadFailed(c) ==
    /\ Len(loaders[c].calls) >= 1
    /\ ~loaders[c].loaded

\* C12: a caller whose load succeeded returns the loaded index and neither
\* builds nor persists. A caller whose load failed goes on to build from its
\* own nodes and then to persist, once, to its own persist_dir, never loading
\* again; when neither of the two raises it has made exactly these calls and
\* returns the index it built.
C12_LoadOrBuild ==
    \A c \in DOMAIN loaders :
        LET ld == loaders[c]
        IN  /\ ld.loaded =>
                   /\ Ops(ld.calls) = << "load_index_from_storage" >>
                   /\ ld.outcome = "returned"
                   /\ ld.returned = ld.index
                   /\ ld.index # NoIndex /\ ld.index.built_by # c
            /\ LoadFailed(c) =>
                   /\ IsPrefix(Ops(ld.calls),
                               << "load_index_from_storage", "VectorStoreIndex",
                                  "persist" >>)
                   /\ Len(ld.calls) >= 2 => ld.calls[2].nodes = ld.nodes
                   /\ Len(ld.calls) >= 3 => ld.calls[3].persist_dir = ld.persist_dir
                   /\ ld.outcome = "returned" =>
                          /\ Len(ld.calls) = 3
                          /\ ld.returned = [nodes |-> ld.nodes, built_by |-> c]
                   /\ (ld.pc = "done" /\ Len(ld.calls) < 3) => ld.outcome = "raised"

\* Two callers on one location both failed to load, and both built and
\* persisted.
C12_Witness ==
    \E c, d \in DOMAIN loaders :
        /\ c # d
        /\ loaders[c].persist_dir = loaders[d].persist_dir
        /\ LoadFailed(c) /\ LoadFailed(d)
        /\ loaders[c].outcome = "returned" /\ loaders[d].outcome = "returned"
        /\ Len(loaders[c].calls) = 3 /\ Len(loaders[d].calls) = 3
        /\ storage[loaders[c].persist_dir].built_by = c

====
